---- MODULE Spec2Model ----
(***************************************************************************)
(* LibSVM text parser of dmlc-core (src/data/libsvm_parser.h).             *)
(*                                                                         *)
(* The model follows LibSVMParser<IndexType, DType>::ParseBlock, the       *)
(* virtual override that TextParserBase calls on one byte range            *)
(* [begin, end).  Memory is a sequence of one-character strings; a pointer *)
(* is a 1-based position in it, so `begin` is 1 and `end` is one past the  *)
(* last byte of the range.  The locals of ParseBlock (lbegin, lend, p, q,  *)
(* min_feat_id) and the RowBlockContainer `out` are the state; `pc` is the *)
(* position of the pass in the function body.                              *)
(***************************************************************************)
EXTENDS Integers, Sequences, FiniteSets, TLC

VARIABLES
  mem,            \* the bytes at and after `begin` (the range, then what follows it)
  end,            \* one past the last byte of the range (const char *end)
  indexing_mode,  \* param_.indexing_mode
  pc,             \* position of the pass in ParseBlock
  lbegin, lend,   \* line cursor
  p, q,           \* in-line cursor and ParsePair's endptr
  min_feat_id,    \* smallest feature id pushed so far
  out,            \* RowBlockContainer: label, weight, qid, offset, index, value
  lines,          \* history: the lines the range was written from
  raw,            \* history: out.index as it was before the indexing mode was applied
  state,          \* free function ParseBlock: SVMParserState
  has_weight,     \* free function ParseBlock: HasField
  has_qid         \* free function ParseBlock: HasField

vars ==
  <<mem, end, indexing_mode, pc, lbegin, lend, p, q, min_feat_id, out, lines, raw,
    state, has_weight, has_qid>>

\* the locals of the free function ParseBlock, which the member function never touches
fsm == <<state, has_weight, has_qid>>

(***************************************************************************)
(* Bounds of the model.                                                    *)
(***************************************************************************)
\* largest number of physical lines in a byte range
MaxLines == 3
\* width in bits of the instantiated IndexType (an unsigned integer type)
IndexBits == 16
\* longest byte string handed to IgnoreCommentAndBlank on its own
MaxScanLen == 3

(***************************************************************************)
(* Characters.                                                             *)
(***************************************************************************)
\* the zero byte
NUL == "NUL"
SP == " "
TAB == "\t"
NL == "\n"
CR == "\r"

\* *p for a pointer p >= begin; past the modelled memory every byte reads as NUL
At(m, i) == IF i \in 1..Len(m) THEN m[i] ELSE NUL

DecimalDigits == {"0", "1", "2", "3", "4", "5", "6", "7", "8", "9"}

DigitVal(c) ==
  CASE c = "0" -> 0 [] c = "1" -> 1 [] c = "2" -> 2 [] c = "3" -> 3 [] c = "4" -> 4
    [] c = "5" -> 5 [] c = "6" -> 6 [] c = "7" -> 7 [] c = "8" -> 8 [] c = "9" -> 9

\* isblank(3): space or horizontal tab
isblank(c) == c \in {SP, TAB}

\* isspace(3), the characters atoll skips before the number
isspace(c) == c \in {SP, TAB, NL, CR, "\f"}

\* dmlc::isdigitchars: the characters a number may be written with
isdigitchars(c) == c \in DecimalDigits \cup {"+", "-", ".", "e", "E"}

\* std::numeric_limits<IndexType>::max() + 1
IndexModulus == 2 ^ IndexBits

IndexTypeMax == IndexModulus - 1

(***************************************************************************)
(* IgnoreCommentAndBlank(beg, line_end): the offset from beg at which      *)
(* content resumes; the whole length when a '#' comes first or when only   *)
(* blanks are left.  Callers pass beg <= line_end.                         *)
(***************************************************************************)
\* IgnoreScan without the test for the comment marker
RECURSIVE IgnoreScanNoComment(_, _, _, _)
IgnoreScanNoComment(m, beg, line_end, pp) ==
  IF pp = line_end THEN line_end - beg
  ELSE IF ~isblank(At(m, pp)) THEN pp - beg
  ELSE IgnoreScanNoComment(m, beg, line_end, pp + 1)

RECURSIVE IgnoreScan(_, _, _, _)
IgnoreScan(m, beg, line_end, pp) ==
  IF pp = line_end THEN line_end - beg
  ELSE IF At(m, pp) = "#" THEN line_end - beg
  ELSE IF ~isblank(At(m, pp)) THEN pp - beg
  ELSE IgnoreScan(m, beg, line_end, pp + 1)

IgnoreCommentAndBlank(m, beg, line_end) == IgnoreScan(m, beg, line_end, beg)

(***************************************************************************)
(* Number conversion.  Str2Num reads the decimal digits that open [b, e);  *)
(* the modelled inputs write numbers with decimal digits only.             *)
(***************************************************************************)
RECURSIVE ReadDigits(_, _, _, _)
ReadDigits(m, b, e, acc) ==
  IF b < e /\ At(m, b) \in DecimalDigits
  THEN ReadDigits(m, b + 1, e, 10 * acc + DigitVal(At(m, b)))
  ELSE acc

Str2Num(m, b, e) == ReadDigits(m, b, e, 0)

\* conversion of a parsed number to the unsigned IndexType
ToIndexType(n) == n % IndexModulus

RECURSIVE SkipNonDigitChars(_, _, _)
SkipNonDigitChars(m, b, e) ==
  IF b # e /\ ~isdigitchars(At(m, b)) THEN SkipNonDigitChars(m, b + 1, e) ELSE b

RECURSIVE SkipDigitChars(_, _, _)
SkipDigitChars(m, b, e) ==
  IF b # e /\ isdigitchars(At(m, b)) THEN SkipDigitChars(m, b + 1, e) ELSE b

RECURSIVE SkipBlank(_, _, _)
SkipBlank(m, b, e) ==
  IF b # e /\ isblank(At(m, b)) THEN SkipBlank(m, b + 1, e) ELSE b

(***************************************************************************)
(* ParsePair(begin, end, &endptr, v1, v2) of dmlc/strtonum.h: one          *)
(* <v1>[:<v2>] token of [b, e).  r is the number of fields found (0, 1 or  *)
(* 2) and endptr where parsing stopped; with r = 0 endptr is e.  A field   *)
(* that was not found is left unwritten; it is 0 here and never read.      *)
(***************************************************************************)
ParsePair(m, b, e) ==
  LET p1 == SkipNonDigitChars(m, b, e)
      q1 == SkipDigitChars(m, p1, e)
      p2 == SkipBlank(m, q1, e)
      p3 == SkipNonDigitChars(m, p2 + 1, e)
      q3 == SkipDigitChars(m, p3, e)
  IN  IF p1 = e THEN [r |-> 0, endptr |-> e, v1 |-> 0, v2 |-> 0]
      ELSE IF p2 = e \/ At(m, p2) # ":"
        THEN [r |-> 1, endptr |-> p2, v1 |-> Str2Num(m, p1, q1), v2 |-> 0]
        ELSE [r |-> 2, endptr |-> q3, v1 |-> Str2Num(m, p1, q1),
              v2 |-> Str2Num(m, p3, q3)]

(***************************************************************************)
(* libc: strncmp(p, "qid:", 4) == 0 and atoll(p).  Neither is given the    *)
(* end of the range: both read memory until they are done.                 *)
(***************************************************************************)
QidPrefix == <<"q", "i", "d", ":">>

StrncmpQid(m, pp) == \A k \in 1..4 : At(m, pp + k - 1) = QidPrefix[k]

RECURSIVE SkipSpace(_, _)
SkipSpace(m, b) == IF isspace(At(m, b)) THEN SkipSpace(m, b + 1) ELSE b

RECURSIVE AtollDigits(_, _, _)
AtollDigits(m, b, acc) ==
  IF At(m, b) \in DecimalDigits
  THEN AtollDigits(m, b + 1, 10 * acc + DigitVal(At(m, b)))
  ELSE acc

\* the uint64_t cast keeps the non-negative results, the only ones the model reaches
atoll(m, pp) ==
  LET s == SkipSpace(m, pp)
  IN  IF At(m, s) = "-" THEN 0 - AtollDigits(m, s + 1, 0)
      ELSE IF At(m, s) = "+" THEN AtollDigits(m, s + 1, 0)
      ELSE AtollDigits(m, s, 0)

(***************************************************************************)
(* RowBlockContainer.  Clear() empties every array and leaves the single   *)
(* entry 0 in offset.                                                      *)
(***************************************************************************)
ClearedBlock ==
  [label |-> <<>>, weight |-> <<>>, qid |-> <<>>,
   offset |-> <<0>>, index |-> <<>>, value |-> <<>>]

\* std::min
Min(a, b) == IF a < b THEN a ELSE b

(***************************************************************************)
(* LibSVMParser::ParseBlock, one operator per stretch of the function.  A  *)
(* frame f holds the locals and the container:                             *)
(*   [pc, lbegin, lend, p, q, min_feat_id, out].                           *)
(* m is the memory, e the end of the range.                                *)
(***************************************************************************)

\* lines 194-197: out->Clear() and the initial values of the locals
ClearStep(m, e, f) ==
  [f EXCEPT !.pc = "line", !.lbegin = 1, !.lend = 1,
            !.min_feat_id = IndexTypeMax, !.out = ClearedBlock]

\* lines 201-202: lend = lbegin + 1, then on to the next '\n' or '\r' or to end
\* ScanLineEnd without the test for '\r'
RECURSIVE ScanLineEndNoCR(_, _, _)
ScanLineEndNoCR(m, e, le) ==
  IF le # e /\ At(m, le) # NL THEN ScanLineEndNoCR(m, e, le + 1) ELSE le

RECURSIVE ScanLineEnd(_, _, _)
ScanLineEnd(m, e, le) ==
  IF le # e /\ At(m, le) # NL /\ At(m, le) # CR THEN ScanLineEnd(m, e, le + 1) ELSE le

LineEnd(m, e, lb) == ScanLineEnd(m, e, lb + 1)

\* lines 200-223: one pass through the head of the line loop
LabelStep(m, e, f) ==
  LET le == LineEnd(m, e, f.lbegin)
      p0 == f.lbegin + IgnoreCommentAndBlank(m, f.lbegin, le)
      pr == ParsePair(m, p0, le)
      o1 == IF pr.r = 2
              THEN [f.out EXCEPT !.weight = Append(@, pr.v2)]
              ELSE f.out
      o2 == IF Len(o1.label) # 0
              THEN [o1 EXCEPT !.offset = Append(@, Len(o1.index))]
              ELSE o1
      o3 == [o2 EXCEPT !.label = Append(@, pr.v1)]
  IN  IF pr.r < 1
        THEN \* empty line: lbegin = lend; continue
             [f EXCEPT !.lend = le, !.p = p0, !.q = pr.endptr, !.lbegin = le]
        ELSE [f EXCEPT !.lend = le, !.p = pr.endptr, !.q = pr.endptr,
                       !.out = o3, !.pc = "qid"]

\* line 227: while (p != end && *p == ' ') ++p
RECURSIVE SkipSpaces(_, _, _)
SkipSpaces(m, e, pp) ==
  IF pp # e /\ At(m, pp) = SP THEN SkipSpaces(m, e, pp + 1) ELSE pp

\* line 228: the last byte strncmp(pp, "qid:", 4) reads: the first one that
\* differs from the prefix, or the fourth
StrncmpReadsTo(m, pp) ==
  LET differs == {k \in 0..3 : At(m, pp + k) # QidPrefix[k + 1]}
  IN  IF differs = {} THEN pp + 3
      ELSE pp + (CHOOSE k \in differs : \A j \in differs : k <= j)

RECURSIVE SkipDecimals(_, _)
SkipDecimals(m, b) == IF At(m, b) \in DecimalDigits THEN SkipDecimals(m, b + 1) ELSE b

\* line 230: the last byte atoll(pp) reads: the one that ends the number
AtollReadsTo(m, pp) ==
  LET s == SkipSpace(m, pp)
  IN  IF At(m, s) \in {"-", "+"} THEN SkipDecimals(m, s + 1) ELSE SkipDecimals(m, s)

\* lines 227-230: the last byte read by strncmp and atoll while the qid of a
\* record is parsed; a position before the token when neither is called
QidReadsTo(m, e, f) ==
  LET p0 == SkipSpaces(m, e, f.q)
  IN  IF p0 = f.lend THEN p0 - 1
      ELSE IF StrncmpQid(m, p0) THEN AtollReadsTo(m, p0 + 4)
      ELSE StrncmpReadsTo(m, p0)

\* lines 226-233: parse qid:id.  When the four bytes compared reach past the
\* end of the range the id is still read and pushed, the cursor has left the
\* range (p > lend, so the tests p != lend never stop it) and the pass goes
\* on through whatever memory follows: pc becomes "oob".
QidStep(m, e, f) ==
  LET p0 == SkipSpaces(m, e, f.q)
      p1 == p0 + 4
      p2 == SkipDigitChars(m, p1, f.lend)
  IN  IF p0 # f.lend /\ StrncmpQid(m, p0)
        THEN IF p1 > e
               THEN [f EXCEPT !.p = SkipDigitChars(m, p1, f.lend), !.pc = "oob",
                              !.out = [@ EXCEPT !.qid = Append(@, atoll(m, p1))]]
               ELSE [f EXCEPT !.p = p2, !.pc = "feat",
                              !.out = [@ EXCEPT !.qid = Append(@, atoll(m, p1))]]
        ELSE [f EXCEPT !.p = p0, !.pc = "feat"]

\* lines 236-253: one iteration of the feature loop (p != lend)
FeatureStep(m, e, f) ==
  LET p0 == f.p + IgnoreCommentAndBlank(m, f.p, f.lend)
      pr == ParsePair(m, p0, f.lend)
      featureId == ToIndexType(pr.v1)
      o1 == [f.out EXCEPT !.index = Append(@, featureId)]
      o2 == IF pr.r = 2 THEN [o1 EXCEPT !.value = Append(@, pr.v2)] ELSE o1
  IN  IF pr.r < 1
        THEN [f EXCEPT !.p = pr.endptr, !.q = pr.endptr]
        ELSE [f EXCEPT !.p = pr.endptr, !.q = pr.endptr, !.out = o2,
                       !.min_feat_id = Min(featureId, f.min_feat_id)]

\* line 256: lbegin = lend, back to the head of the line loop
NextLineStep(m, e, f) == [f EXCEPT !.lbegin = f.lend, !.pc = "line"]

\* FinishStep without the push that closes the last row
FinishStepNoClose(m, e, f) ==
  [f EXCEPT !.pc = IF Len(f.out.label) + 1 = Len(f.out.offset) THEN "resolve" ELSE "fatal"]

\* lines 258-261: close the last row; CHECK(label.size() + 1 == offset.size())
FinishStep(m, e, f) ==
  LET o1 == IF Len(f.out.label) # 0
              THEN [f.out EXCEPT !.offset = Append(@, Len(f.out.index))]
              ELSE f.out
  IN  [f EXCEPT !.out = o1,
                !.pc = IF Len(o1.label) + 1 = Len(o1.offset) THEN "resolve" ELSE "fatal"]

\* --e that stops at 0 instead of wrapping
DecrementClamped(x) == IF x = 0 THEN 0 ELSE x - 1

\* --e on the unsigned IndexType
Decrement(x) == (x + IndexModulus - 1) % IndexModulus

\* ShiftsIndex with the heuristic comparing min_feat_id >= 0
ShiftsIndexWhenZeroSeen(mode, f) ==
  mode > 0 \/ (mode < 0 /\ f.out.index # <<>> /\ f.min_feat_id >= 0)

\* ShiftsIndex with the heuristic comparing min_feat_id > 1
ShiftsIndexAboveOne(mode, f) ==
  mode > 0 \/ (mode < 0 /\ f.out.index # <<>> /\ f.min_feat_id > 1)

\* line 266-267: the condition under which the ids are converted to 0-based
ShiftsIndex(mode, f) ==
  mode > 0 \/ (mode < 0 /\ f.out.index # <<>> /\ f.min_feat_id > 0)

\* lines 266-272: detect the indexing mode and convert
ResolveStep(mode, f) ==
  IF ShiftsIndex(mode, f)
    THEN [f EXCEPT !.pc = "done",
                   !.out = [@ EXCEPT !.index =
                              [i \in 1..Len(f.out.index) |-> Decrement(f.out.index[i])]]]
    ELSE [f EXCEPT !.pc = "done"]

Terminal == {"done", "fatal", "oob"}

\* the statement the pass executes next
Step(m, e, mode, f) ==
  CASE f.pc = "start"   -> ClearStep(m, e, f)
    [] f.pc = "line"    -> IF f.lbegin # e THEN LabelStep(m, e, f)
                                           ELSE [f EXCEPT !.pc = "finish"]
    [] f.pc = "qid"     -> QidStep(m, e, f)
    [] f.pc = "feat"    -> IF f.p # f.lend THEN FeatureStep(m, e, f)
                                           ELSE NextLineStep(m, e, f)
    [] f.pc = "finish"  -> FinishStep(m, e, f)
    [] f.pc = "resolve" -> ResolveStep(mode, f)
    [] OTHER            -> f

\* the frame on entry to ParseBlock with a freshly constructed container
EntryFrame ==
  [pc |-> "start", lbegin |-> 1, lend |-> 1, p |-> 1, q |-> 1,
   min_feat_id |-> IndexTypeMax, out |-> ClearedBlock]

RECURSIVE RunFrom(_, _, _, _)
RunFrom(m, e, mode, f) ==
  IF f.pc \in Terminal THEN f ELSE RunFrom(m, e, mode, Step(m, e, mode, f))

\* a whole pass over the range that holds exactly the bytes of m
ParseBlock(m, mode) == RunFrom(m, Len(m) + 1, mode, EntryFrame)

(***************************************************************************)
(* Inputs.  A byte range is written from at most MaxLines lines, each one  *)
(* of the shapes below: its text, its terminator, and what the line says   *)
(* (kind, label, weight, qid, feature pairs) in the grammar               *)
(*   <Label>[:<Weight>] [qid:<Qid>] (<FeatureId>:<Value>)* [# comment].    *)
(***************************************************************************)
LineA ==
  [body |-> <<"1", " ", "1", ":", "5", " ", "3", ":", "2">>, term |-> <<NL>>,
   kind |-> "record", label |-> 1, weight |-> <<>>, qid |-> <<>>,
   feats |-> << <<1, 5>>, <<3, 2>> >>]

LineB ==
  [body |-> <<"0", " ", "2", ":", "1">>, term |-> <<NL>>,
   kind |-> "record", label |-> 0, weight |-> <<>>, qid |-> <<>>,
   feats |-> << <<2, 1>> >>]

LineC ==
  [body |-> <<"1", ":", "2", " ", "q", "i", "d", ":", "7", " ", "1", ":", "5">>,
   term |-> <<NL>>,
   kind |-> "record", label |-> 1, weight |-> <<2>>, qid |-> <<7>>,
   feats |-> << <<1, 5>> >>]

LineD ==
  [body |-> <<>>, term |-> <<NL>>,
   kind |-> "blank", label |-> 0, weight |-> <<>>, qid |-> <<>>, feats |-> <<>>]

LineE ==
  [body |-> <<"#", " ", "5">>, term |-> <<NL>>,
   kind |-> "comment", label |-> 0, weight |-> <<>>, qid |-> <<>>, feats |-> <<>>]

LineF ==
  [body |-> <<"2", " ", "1", ":", "3", ":", "4">>, term |-> <<NL>>,
   kind |-> "malformed", label |-> 2, weight |-> <<>>, qid |-> <<>>,
   feats |-> << <<1, 3>> >>]

LineG ==
  [body |-> <<"1", " ", "0", ":", "4">>, term |-> <<CR, NL>>,
   kind |-> "record", label |-> 1, weight |-> <<>>, qid |-> <<>>,
   feats |-> << <<0, 4>> >>]

LineH ==
  [body |-> <<"0", " ", "q", "i", "d", ":", "4">>, term |-> <<NL>>,
   kind |-> "record", label |-> 0, weight |-> <<>>, qid |-> <<4>>, feats |-> <<>>]

LineI ==
  [body |-> <<"1", " ", "3">>, term |-> <<NL>>,
   kind |-> "malformed", label |-> 1, weight |-> <<>>, qid |-> <<>>, feats |-> <<>>]

LineJ ==
  [body |-> <<"1", " ", "2", ":", "3", " ", "#", " ", "7">>, term |-> <<NL>>,
   kind |-> "record", label |-> 1, weight |-> <<>>, qid |-> <<>>,
   feats |-> << <<2, 3>> >>]

LineK ==
  [body |-> <<" ", "3", ":", "2", " ", "2", ":", "6">>, term |-> <<NL>>,
   kind |-> "record", label |-> 3, weight |-> <<2>>, qid |-> <<>>,
   feats |-> << <<2, 6>> >>]

LineKinds ==
  {LineA, LineB, LineC, LineD, LineE, LineF, LineG, LineH, LineI, LineJ, LineK}

LineSeqs == UNION {[1..n -> LineKinds] : n \in 0..MaxLines}

\* the values of param_.indexing_mode: auto-detect, 0-based, 1-based
Modes == {-1, 0, 1}

\* the text of the lines ls; the last line keeps its terminator iff final_nl
RECURSIVE Render(_, _)
Render(ls, final_nl) ==
  IF ls = <<>> THEN <<>>
  ELSE IF Len(ls) = 1
    THEN Head(ls).body \o (IF final_nl THEN Head(ls).term ELSE <<>>)
    ELSE Head(ls).body \o Head(ls).term \o Render(Tail(ls), final_nl)

(***************************************************************************)
(* The state machine: one pass of ParseBlock over one byte range.          *)
(***************************************************************************)
Frame ==
  [pc |-> pc, lbegin |-> lbegin, lend |-> lend, p |-> p, q |-> q,
   min_feat_id |-> min_feat_id, out |-> out]

Load(f) ==
  /\ pc' = f.pc
  /\ lbegin' = f.lbegin
  /\ lend' = f.lend
  /\ p' = f.p
  /\ q' = f.q
  /\ min_feat_id' = f.min_feat_id
  /\ out' = f.out

Init ==
  /\ lines \in LineSeqs
  /\ \E final_nl \in BOOLEAN : mem = Render(lines, final_nl)
  /\ end = Len(mem) + 1
  /\ indexing_mode \in Modes
  /\ pc = EntryFrame.pc
  /\ lbegin = EntryFrame.lbegin
  /\ lend = EntryFrame.lend
  /\ p = EntryFrame.p
  /\ q = EntryFrame.q
  /\ min_feat_id = EntryFrame.min_feat_id
  /\ out = EntryFrame.out
  /\ raw = <<>>
  /\ state = "kLabel"
  /\ has_weight = "kUnknown"
  /\ has_qid = "kUnknown"

\* lines 194-197
Clear ==
  /\ pc = "start"
  /\ Load(ClearStep(mem, end, Frame))
  /\ UNCHANGED <<mem, end, indexing_mode, lines, raw>>
  /\ UNCHANGED fsm

\* lines 199-215 with r < 1: the line holds no label and is skipped
SkipEmptyLine ==
  /\ pc = "line"
  /\ lbegin # end
  /\ LabelStep(mem, end, Frame).pc = "line"
  /\ Load(LabelStep(mem, end, Frame))
  /\ UNCHANGED <<mem, end, indexing_mode, lines, raw>>
  /\ UNCHANGED fsm

\* lines 199-223 with r >= 1: a row is opened with its label and weight
ParseLabel ==
  /\ pc = "line"
  /\ lbegin # end
  /\ LabelStep(mem, end, Frame).pc = "qid"
  /\ Load(LabelStep(mem, end, Frame))
  /\ UNCHANGED <<mem, end, indexing_mode, lines, raw>>
  /\ UNCHANGED fsm

\* lines 224-233
ParseQid ==
  /\ pc = "qid"
  /\ Load(QidStep(mem, end, Frame))
  /\ UNCHANGED <<mem, end, indexing_mode, lines, raw>>
  /\ UNCHANGED fsm

\* lines 235-254, one iteration
ParseFeature ==
  /\ pc = "feat"
  /\ p # lend
  /\ Load(FeatureStep(mem, end, Frame))
  /\ UNCHANGED <<mem, end, indexing_mode, lines, raw>>
  /\ UNCHANGED fsm

\* lines 235 and 256: the feature loop ends, on to the next line
NextLine ==
  /\ pc = "feat"
  /\ p = lend
  /\ Load(NextLineStep(mem, end, Frame))
  /\ UNCHANGED <<mem, end, indexing_mode, lines, raw>>
  /\ UNCHANGED fsm

\* line 199: lbegin == end, the line loop ends
EndOfRange ==
  /\ pc = "line"
  /\ lbegin = end
  /\ pc' = "finish"
  /\ UNCHANGED <<mem, end, indexing_mode, lbegin, lend, p, q, min_feat_id, out, lines, raw>>
  /\ UNCHANGED fsm

\* lines 258-261
Finish ==
  /\ pc = "finish"
  /\ Load(FinishStep(mem, end, Frame))
  /\ UNCHANGED <<mem, end, indexing_mode, lines, raw>>
  /\ UNCHANGED fsm

\* lines 263-272
ResolveIndexing ==
  /\ pc = "resolve"
  /\ Load(ResolveStep(indexing_mode, Frame))
  /\ raw' = out.index
  /\ UNCHANGED <<mem, end, indexing_mode, lines>>
  /\ UNCHANGED fsm

Next ==
  \/ Clear
  \/ SkipEmptyLine
  \/ ParseLabel
  \/ ParseQid
  \/ ParseFeature
  \/ NextLine
  \/ EndOfRange
  \/ Finish
  \/ ResolveIndexing

Spec == Init /\ [][Next]_vars

(***************************************************************************)
(* What the lines of the range say, for the properties below.              *)
(***************************************************************************)
IsRecordLine(l) == l.kind \in {"record", "malformed"}

IsWellFormed(l) == l.kind # "malformed"

\* the lines that carry a record, in input order
Records == SelectSeq(lines, IsRecordLine)

Completed == pc = "done"

\* the smallest element of a non-empty sequence of numbers
MinOf(s) == CHOOSE x \in {s[i] : i \in 1..Len(s)} : \A i \in 1..Len(s) : x <= s[i]

\* C1: after a completed pass offset has one entry more than label, starts
\* at 0, never decreases and ends at the length of index; the CHECK that
\* closes the pass never fails.
OffsetInvariant ==
  /\ pc # "fatal"
  /\ Completed =>
       /\ Len(out.offset) = Len(out.label) + 1
       /\ out.offset[1] = 0
       /\ \A i \in 1..(Len(out.offset) - 1) : out.offset[i] <= out.offset[i + 1]
       /\ out.offset[Len(out.offset)] = Len(out.index)

\* C1 witness: a completed pass over blank lines and at least two rows with features
OffsetWitness ==
  /\ Completed
  /\ Len(out.label) >= 2
  /\ Len(out.index) >= 2
  /\ \E i \in 1..Len(lines) : lines[i].kind = "blank"

\* C2: after a completed pass index and value have the same length.
IndexValueAligned == Completed => Len(out.index) = Len(out.value)

\* C3: after a completed pass weight is empty or as long as label, and so is qid.
WeightQidAllOrNothing ==
  Completed =>
    /\ Len(out.weight) \in {0, Len(out.label)}
    /\ Len(out.qid) \in {0, Len(out.label)}

\* C4: a pass whose records disagree with the first record on carrying a
\* weight raises a fatal error, so it never completes.
WeightConsistencyEnforced ==
  Completed =>
    \A i \in 1..Len(Records) : (Records[i].weight = <<>>) = (Records[1].weight = <<>>)

\* C5: a pass whose records disagree with the first record on carrying a
\* qid raises a fatal error, so it never completes.
QidConsistencyEnforced ==
  Completed =>
    \A i \in 1..Len(Records) : (Records[i].qid = <<>>) = (Records[1].qid = <<>>)

\* C6: a feature token with an id and no value raises a fatal error: no pass
\* over a range that holds such a token completes.
MalformedPairRaised ==
  Completed => \A i \in 1..Len(lines) : IsWellFormed(lines[i])

\* C7: blank and comment-only lines are ignored wherever they stand: the
\* block is the one parsed from the record lines alone, and no error is raised.
BlankAndCommentIgnored ==
  /\ pc # "fatal"
  /\ Completed => out = ParseBlock(Render(Records, TRUE), indexing_mode).out

\* "every id is decreased by exactly 1", in the arithmetic of IndexType
DecreasedByOne(before, after) ==
  /\ Len(after) = Len(before)
  /\ \A i \in 1..Len(before) : (after[i] + 1) % IndexModulus = before[i]

\* C8: the resolver follows the decision table: mode > 0 shifts every id,
\* mode = 0 shifts none, mode < 0 shifts every id iff the block has a feature
\* and the smallest id of the pass is greater than 0.
ResolverDecisionTable ==
  Completed =>
    /\ indexing_mode > 0 => DecreasedByOne(raw, out.index)
    /\ indexing_mode = 0 => out.index = raw
    /\ indexing_mode < 0 =>
         IF raw # <<>> /\ MinOf(raw) > 0
           THEN DecreasedByOne(raw, out.index)
           ELSE out.index = raw

\* C8 witness: auto-detect met a block whose ids are all positive and shifted it
ResolverWitness ==
  /\ Completed
  /\ indexing_mode < 0
  /\ Len(raw) >= 2
  /\ MinOf(raw) > 0
  /\ out.index # raw

\* C9: when every feature id of the block is >= 1, forced shift (mode 1) and
\* auto-detect (mode -1) give the same block.
ForcedEqualsAuto ==
  (/\ Completed
   /\ indexing_mode \in {1, -1}
   /\ \A i \in 1..Len(raw) : raw[i] >= 1)
  => out = RunFrom(mem, end, 0 - indexing_mode, EntryFrame).out

\* C9 witness: a completed forced-shift pass over rows whose ids are all >= 1
ForcedEqualsAutoWitness ==
  /\ Completed
  /\ indexing_mode = 1
  /\ Len(raw) >= 2
  /\ \A i \in 1..Len(raw) : raw[i] >= 1

\* the feature ids, and the feature values, written on a line
IdsOf(l) == [k \in 1..Len(l.feats) |-> l.feats[k][1]]

ValuesOf(l) == [k \in 1..Len(l.feats) |-> l.feats[k][2]]

\* C10: with 0-based indexing and well-formed lines, row i of the block is
\* the i-th record of the input: label[i] is its label, and index and value
\* between offset[i] and offset[i+1] are its feature pairs in order.
RowsMatchRecords ==
  (/\ Completed
   /\ indexing_mode = 0
   /\ \A i \in 1..Len(lines) : IsWellFormed(lines[i]))
  => /\ Len(out.label) = Len(Records)
     /\ Len(out.offset) = Len(Records) + 1
     /\ \A i \in 1..Len(Records) :
          /\ out.label[i] = Records[i].label
          /\ SubSeq(out.index, out.offset[i] + 1, out.offset[i + 1]) = IdsOf(Records[i])
          /\ SubSeq(out.value, out.offset[i] + 1, out.offset[i + 1]) = ValuesOf(Records[i])

(***************************************************************************)
(* IgnoreCommentAndBlank on its own: the call of lines 208-209 and         *)
(* 238-239, advanced = IgnoreCommentAndBlank(p, lend); p += advanced, on   *)
(* every [beg, line_end) inside every byte string of up to MaxScanLen      *)
(* characters.  Here lbegin is beg and lend is line_end.                   *)
(***************************************************************************)
ScanChars == {SP, TAB, "#", NL, "1"}

ScanStrings == UNION {[1..n -> ScanChars] : n \in 0..MaxScanLen}

InitScan ==
  /\ mem \in ScanStrings
  /\ end = Len(mem) + 1
  /\ lbegin \in 1..(Len(mem) + 1)
  /\ lend \in lbegin..(Len(mem) + 1)
  /\ p = lbegin
  /\ q = 1
  /\ pc = "scan"
  /\ indexing_mode = 0
  /\ min_feat_id = IndexTypeMax
  /\ out = ClearedBlock
  /\ lines = <<>>
  /\ raw = <<>>
  /\ state = "kLabel"
  /\ has_weight = "kUnknown"
  /\ has_qid = "kUnknown"

ScanCall ==
  /\ pc = "scan"
  /\ p' = p + IgnoreCommentAndBlank(mem, p, lend)
  /\ pc' = "scanned"
  /\ UNCHANGED <<mem, end, indexing_mode, lbegin, lend, q, min_feat_id, out, lines, raw>>
  /\ UNCHANGED fsm

NextScan == ScanCall

SpecScan == InitScan /\ [][NextScan]_vars

\* a '#' stands in [lbegin, lend) with nothing but spaces and tabs before it
CommentComesFirst ==
  \E k \in lbegin..(lend - 1) :
    /\ mem[k] = "#"
    /\ \A j \in lbegin..(k - 1) : mem[j] \in {SP, TAB}

\* [lbegin, lend) holds nothing but spaces and tabs (or nothing at all)
OnlyBlanksLeft == \A k \in lbegin..(lend - 1) : mem[k] \in {SP, TAB}

\* C11: IgnoreCommentAndBlank returns the whole length when a '#' comes
\* before any non-blank character or when only blanks are left, and
\* otherwise the offset of the first character that is neither blank (space
\* or tab, not newline) nor '#'; the result lies in [0, length].
ScanResult ==
  pc = "scanned" =>
    /\ p - lbegin \in 0..(lend - lbegin)
    /\ IF CommentComesFirst \/ OnlyBlanksLeft
         THEN p = lend
         ELSE /\ p < lend
              /\ mem[p] \notin {SP, TAB, "#"}
              /\ \A j \in lbegin..(p - 1) : mem[j] \in {SP, TAB, "#"}

\* C11 witness: a blank, then a comment marker, then text: the whole length is returned
ScanWitness ==
  /\ pc = "scanned"
  /\ lend - lbegin = 3
  /\ mem[lbegin] = TAB
  /\ mem[lbegin + 1] = "#"
  /\ mem[lbegin + 2] = "1"
  /\ p = lend

(***************************************************************************)
(* Passes over ranges that are followed by other bytes in memory, and over *)
(* lines whose second token looks like, or is, a qid.  The range is the    *)
(* rendered text; mem holds the range and then the bytes of a tail.        *)
(***************************************************************************)
\* longest sequence of lines in these ranges
MaxTokenLines == 2

TokUpper ==
  [body |-> <<"1", " ", "Q", "I", "D", ":", "7">>, term |-> <<NL>>,
   kind |-> "record", label |-> 1, weight |-> <<>>, qid |-> <<>>, feats |-> <<>>]

TokNoColon ==
  [body |-> <<"1", " ", "q", "i", "d", " ", "7">>, term |-> <<NL>>,
   kind |-> "record", label |-> 1, weight |-> <<>>, qid |-> <<>>, feats |-> <<>>]

TokQid ==
  [body |-> <<"1", " ", " ", "q", "i", "d", ":", "1", "2", " ", "1", ":", "5">>,
   term |-> <<NL>>,
   kind |-> "record", label |-> 1, weight |-> <<>>, qid |-> <<12>>,
   feats |-> << <<1, 5>> >>]

TokQidLast ==
  [body |-> <<"1", " ", "q", "i", "d", ":", "7">>, term |-> <<NL>>,
   kind |-> "record", label |-> 1, weight |-> <<>>, qid |-> <<7>>, feats |-> <<>>]

TokCut ==
  [body |-> <<"1", " ", "q", "i">>, term |-> <<NL>>,
   kind |-> "record", label |-> 1, weight |-> <<>>, qid |-> <<>>, feats |-> <<>>]

TokNoId ==
  [body |-> <<"1", " ", "q", "i", "d", ":">>, term |-> <<NL>>,
   kind |-> "record", label |-> 1, weight |-> <<>>, qid |-> <<0>>, feats |-> <<>>]

\* a feature pair, then text with a comment marker inside it
TokHashText ==
  [body |-> <<"1", " ", "2", ":", "3", " ", "x", "#", "4", ":", "5">>, term |-> <<NL>>,
   kind |-> "record", label |-> 1, weight |-> <<>>, qid |-> <<>>,
   feats |-> << <<2, 3>> >>]

TokenKinds ==
  {TokUpper, TokNoColon, TokQid, TokQidLast, TokCut, TokNoId, TokHashText, LineA, LineD}

TokenSeqs == UNION {[1..n -> TokenKinds] : n \in 1..MaxTokenLines}

\* what memory holds right after the range
Tails == {<<>>, <<"3">>, <<"d", ":", "7">>}

InitTokens ==
  /\ lines \in TokenSeqs
  /\ \E final_nl \in BOOLEAN : \E tail \in Tails :
       /\ mem = Render(lines, final_nl) \o tail
       /\ end = Len(Render(lines, final_nl)) + 1
  /\ indexing_mode \in Modes
  /\ pc = EntryFrame.pc
  /\ lbegin = EntryFrame.lbegin
  /\ lend = EntryFrame.lend
  /\ p = EntryFrame.p
  /\ q = EntryFrame.q
  /\ min_feat_id = EntryFrame.min_feat_id
  /\ out = EntryFrame.out
  /\ raw = <<>>
  /\ state = "kLabel"
  /\ has_weight = "kUnknown"
  /\ has_qid = "kUnknown"

SpecTokens == InitTokens /\ [][Next]_vars

\* the first position at or after b that is lend or holds no space
RECURSIVE TokenStart(_)
TokenStart(b) == IF b < lend /\ mem[b] = SP THEN TokenStart(b + 1) ELSE b

\* the token at b begins with the four characters q i d : inside the line
BeginsWithQid(b) ==
  /\ b + 4 <= lend
  /\ <<mem[b], mem[b + 1], mem[b + 2], mem[b + 3]>> = <<"q", "i", "d", ":">>

\* the end of the run of decimal digits that starts at b inside the line
RECURSIVE DigitRunEnd(_)
DigitRunEnd(b) ==
  IF b < lend /\ mem[b] \in {"0", "1", "2", "3", "4", "5", "6", "7", "8", "9"}
  THEN DigitRunEnd(b + 1) ELSE b

\* the number written by the digits of [b, e), 0 when there is none
RECURSIVE DigitRunValue(_, _)
DigitRunValue(b, e) ==
  IF b >= e THEN 0
  ELSE 10 * DigitRunValue(b, e - 1) + DigitVal(mem[e - 1])

\* C12: when the qid of a record is parsed, a qid entry is appended iff the
\* first token after the label begins with the exact characters qid: and
\* then it is the unsigned integer written right after the prefix, with
\* feature parsing resuming after its digits; any other token appends
\* nothing to qid and is handed to feature parsing where it starts.
QidIffPrefix ==
  [][pc = "qid" =>
       LET t == TokenStart(q)
       IN  IF BeginsWithQid(t)
             THEN /\ out'.qid = Append(out.qid, DigitRunValue(t + 4, DigitRunEnd(t + 4)))
                  /\ p' = DigitRunEnd(t + 4)
                  /\ pc' = "feat"
             ELSE /\ out'.qid = out.qid
                  /\ p' = t
                  /\ pc' = "feat"]_vars

(***************************************************************************)
(* Passes over records whose lines end in '\n', in '\r' or in '\r' '\n',   *)
(* every line with a terminator of its own.                                *)
(***************************************************************************)
\* longest sequence of lines in these ranges
MaxTermLines == 2

Terminators == {<<NL>>, <<CR>>, <<CR, NL>>}

TermRecords == {LineA, LineC, LineH, LineK}

TermKinds == {[l EXCEPT !.term = t] : l \in TermRecords, t \in Terminators}

TermSeqs == UNION {[1..n -> TermKinds] : n \in 0..MaxTermLines}

InitTerm ==
  /\ lines \in TermSeqs
  /\ \E final_nl \in BOOLEAN : mem = Render(lines, final_nl)
  /\ end = Len(mem) + 1
  /\ indexing_mode \in Modes
  /\ pc = EntryFrame.pc
  /\ lbegin = EntryFrame.lbegin
  /\ lend = EntryFrame.lend
  /\ p = EntryFrame.p
  /\ q = EntryFrame.q
  /\ min_feat_id = EntryFrame.min_feat_id
  /\ out = EntryFrame.out
  /\ raw = <<>>
  /\ state = "kLabel"
  /\ has_weight = "kUnknown"
  /\ has_qid = "kUnknown"

SpecTerm == InitTerm /\ [][Next]_vars

\* the same lines, every one of them ended by a single '\n'
WithNewlines(ls) == [i \in 1..Len(ls) |-> [ls[i] EXCEPT !.term = <<NL>>]]

\* the number of feature pairs written on the lines ls
RECURSIVE PairCount(_)
PairCount(ls) == IF ls = <<>> THEN 0 ELSE Len(Head(ls).feats) + PairCount(Tail(ls))

\* C13: a sequence of records parses to the same block whether its lines
\* end in '\n', in '\r' or in '\r' '\n': the block of a completed pass is the
\* block of the pass over the same records ended by '\n', with one row per
\* record and one index entry per feature pair (no terminator adds any).
TerminatorsAgree ==
  Completed =>
    /\ out = ParseBlock(Render(WithNewlines(lines), TRUE), indexing_mode).out
    /\ Len(out.label) = Len(lines)
    /\ Len(out.index) = PairCount(lines)
    /\ Len(out.value) = PairCount(lines)

\* C13 witness: a completed pass over a line ended by '\r' and a line ended
\* by '\r' '\n', both records
TerminatorsWitness ==
  /\ Completed
  /\ Len(lines) = 2
  /\ lines[1].term = <<CR>>
  /\ lines[2].term = <<CR, NL>>
  /\ mem[Len(mem)] = NL
  /\ Len(out.label) = 2
  /\ Len(out.index) > 0

(***************************************************************************)
(* The free function ParseBlock(lbegin, end, out) of lines 94-187, a state *)
(* machine written as a switch inside while (true).  Every iteration sets  *)
(* lend = lbegin and p = lbegin anew (lines 113-114) and runs the arm of    *)
(* the current state; lbegin is never assigned.  Nothing in the file calls *)
(* this function.  pc is "fsm" while the loop runs and "fatal" after a     *)
(* failed CHECK or LOG(FATAL); "loop" stands for the inner loop of line    *)
(* 168, which never moves p.                                               *)
(***************************************************************************)
\* rows after which the exploration of the endless loop is cut off
MaxFsmRows == 3

\* lines 117-142: case kLabel, with lend = p = lb
FsmLabel(m, e, lb, f) ==
  LET pr    == ParsePair(m, lb, lb)
      label == IF pr.r >= 1 THEN pr.v1 ELSE 0
      o1    == [f.out EXCEPT !.label = Append(@, label)]
  IN  IF pr.r = 2
        THEN IF f.has_weight = "kFalse"
               THEN [f EXCEPT !.out = o1, !.pc = "fatal"]
               ELSE [f EXCEPT !.out = [o1 EXCEPT !.weight = Append(@, pr.v2)],
                              !.has_weight = "kTrue", !.state = "kQid"]
        ELSE IF f.has_weight = "kTrue"
               THEN [f EXCEPT !.out = o1, !.pc = "fatal"]
               ELSE [f EXCEPT !.out = o1, !.has_weight = "kFalse", !.state = "kQid"]

\* lines 143-163: case kQid, with lend = lb
FsmQid(m, e, lb, f) ==
  LET p0 == SkipSpaces(m, e, lb)
      st == IF p0 = lb THEN "kLabel" ELSE f.state
      p1 == p0 + 4
      f1 == [f EXCEPT !.state = st, !.p = p0]
  IN  IF lb = e THEN [f EXCEPT !.pc = "fatal"]
      ELSE IF StrncmpQid(m, p0)
        THEN IF f.has_qid = "kFalse"
               THEN [f1 EXCEPT !.pc = "fatal"]
               ELSE [f1 EXCEPT !.p = SkipDigitChars(m, p1, lb),
                               !.out = [@ EXCEPT !.qid = Append(@, atoll(m, p1))],
                               !.has_qid = "kTrue"]
        ELSE IF f.has_qid = "kTrue"
               THEN [f1 EXCEPT !.pc = "fatal"]
               ELSE f1

\* lines 164-178: case kFeature, with lend = p = lb
FsmFeature(m, e, lb, f) ==
  LET o1 == IF Len(f.out.label) # 0
              THEN [f.out EXCEPT !.offset = Append(@, Len(f.out.index))]
              ELSE f.out
      pr == ParsePair(m, lb, lb)
  IN  IF At(m, lb) # NL /\ At(m, lb) # "#"
        THEN IF pr.r # 2
               THEN [f EXCEPT !.out = o1, !.pc = "fatal"]
               ELSE [f EXCEPT !.out = [o1 EXCEPT !.index = Append(@, ToIndexType(pr.v1)),
                                                 !.value = Append(@, pr.v2)],
                              !.pc = "loop"]
        ELSE [f EXCEPT !.out = o1, !.state = "kComment"]

\* lines 179-184: case kComment, with lend = p = lb
FsmComment(m, e, lb, f) ==
  [f EXCEPT !.p = lb + IgnoreCommentAndBlank(m, lb, lb), !.state = "kFeature"]

\* lines 112-186: one iteration of while (true)
FsmStep(m, e, lb, f) ==
  LET f0 == [f EXCEPT !.lend = lb, !.p = lb]
  IN  CASE f.state = "kLabel"   -> FsmLabel(m, e, lb, f0)
        [] f.state = "kQid"     -> FsmQid(m, e, lb, f0)
        [] f.state = "kFeature" -> FsmFeature(m, e, lb, f0)
        [] f.state = "kComment" -> FsmComment(m, e, lb, f0)

FsmFrame ==
  [pc |-> pc, state |-> state, has_weight |-> has_weight, has_qid |-> has_qid,
   lend |-> lend, p |-> p, out |-> out]

\* a line that begins with a qid, and a line of spaces
FsmQidFirst ==
  [body |-> <<"q", "i", "d", ":", "7", " ", "1", ":", "5">>, term |-> <<NL>>,
   kind |-> "malformed", label |-> 0, weight |-> <<>>, qid |-> <<7>>,
   feats |-> << <<1, 5>> >>]

FsmSpaces ==
  [body |-> <<" ", " ">>, term |-> <<NL>>,
   kind |-> "blank", label |-> 0, weight |-> <<>>, qid |-> <<>>, feats |-> <<>>]

FsmKinds == {LineA, LineC, LineD, LineE, LineF, LineK, TokQidLast, FsmQidFirst, FsmSpaces}

FsmSeqs == UNION {[1..n -> FsmKinds] : n \in 0..MaxTokenLines}

InitFsm ==
  /\ lines \in FsmSeqs
  /\ \E final_nl \in BOOLEAN : \E tail \in Tails :
       /\ mem = Render(lines, final_nl) \o tail
       /\ end = Len(Render(lines, final_nl)) + 1
  /\ indexing_mode = 0
  /\ pc = "fsm"
  /\ lbegin = 1
  /\ lend = 1
  /\ p = 1
  /\ q = 1
  /\ min_feat_id = IndexTypeMax
  /\ out = ClearedBlock
  /\ raw = <<>>
  /\ state = "kLabel"
  /\ has_weight = "kUnknown"
  /\ has_qid = "kUnknown"

FsmIterate ==
  /\ pc = "fsm"
  /\ Len(out.label) < MaxFsmRows
  /\ Len(out.qid) < MaxFsmRows
  /\ LET f == FsmStep(mem, end, lbegin, FsmFrame)
     IN  /\ pc' = f.pc
         /\ state' = f.state
         /\ has_weight' = f.has_weight
         /\ has_qid' = f.has_qid
         /\ lend' = f.lend
         /\ p' = f.p
         /\ out' = f.out
  /\ UNCHANGED <<mem, end, indexing_mode, lbegin, q, min_feat_id, lines, raw>>

NextFsm == FsmIterate

SpecFsm == InitFsm /\ [][NextFsm]_vars

\* C14: the state machine takes every record through Label, Qid, FeatureList
\* and Comment in this order: from the Qid state the FeatureList state comes
\* before any Label state, so no iteration leads from Qid straight to Label.
QidThenFeatureList == [][state = "kQid" => state' # "kLabel"]_vars

\* C15: every pass terminates because every iteration of the parser's loop
\* makes progress through the range: it moves the line cursor or the
\* in-line cursor forward, or it ends the pass.
IterationsAdvance ==
  [][pc = "fsm" => (lbegin' > lbegin \/ p' > p \/ pc' = "done")]_vars

\* the bytes of s from position i on without the comments: on every line
\* the '#' and whatever follows it up to the line terminator are dropped
RECURSIVE StripFrom(_, _, _)
StripFrom(s, i, in_comment) ==
  IF i > Len(s) THEN <<>>
  ELSE IF s[i] \in {NL, CR} THEN <<s[i]>> \o StripFrom(s, i + 1, FALSE)
  ELSE IF in_comment \/ s[i] = "#" THEN StripFrom(s, i + 1, TRUE)
  ELSE <<s[i]>> \o StripFrom(s, i + 1, FALSE)

StripComments(s) == StripFrom(s, 1, FALSE)

\* C16: no text after a '#' on a line appends an entry to label, qid, index
\* or value: a completed pass leaves in these arrays what the pass over the
\* same range with the comments removed leaves in them.
CommentTextInert ==
  Completed =>
    LET stripped == StripComments(SubSeq(mem, 1, end - 1))
        after    == SubSeq(mem, end, Len(mem))
        ref      == RunFrom(stripped \o after, Len(stripped) + 1, indexing_mode,
                            EntryFrame).out
    IN  /\ out.label = ref.label
        /\ out.qid = ref.qid
        /\ out.index = ref.index
        /\ out.value = ref.value

\* record i of the input is one a fatal format error is due for: it holds a
\* feature id with no value, or it differs from the first record in carrying
\* a weight or in carrying a qid
Offends(i) ==
  \/ Records[i].kind = "malformed"
  \/ (Records[i].weight = <<>>) # (Records[1].weight = <<>>)
  \/ (Records[i].qid = <<>>) # (Records[1].qid = <<>>)

\* C17: a fatal format error aborts the pass at once and leaves nothing of
\* the offending record behind: when the pass is over, the block holds no row
\* for a record that a format error is due for, nor for any record after it.
AbortLeavesNoPartialRow ==
  pc \in Terminal =>
    \A i \in 1..Len(Records) : Offends(i) => Len(out.label) < i

\* C18: chunked parsing composes: for every split of the range after the
\* terminator of one of its lines, the blocks of the passes over the two
\* chunks, concatenated in order, hold the label, index and value sequences
\* of the pass over the whole range (same indexing_mode in all three).
ChunksCompose ==
  Completed =>
    \A k \in 1..(Len(lines) - 1) :
      LET first  == Render(SubSeq(lines, 1, k), TRUE)
          second == SubSeq(mem, Len(first) + 1, Len(mem))
          a      == ParseBlock(first, indexing_mode).out
          b      == ParseBlock(second, indexing_mode).out
      IN  /\ out.label = a.label \o b.label
          /\ out.index = a.index \o b.index
          /\ out.value = a.value \o b.value

\* C19: a pass reads only bytes of its range: when the qid of a record is
\* about to be parsed, every byte that strncmp and atoll will read lies
\* before end.
QidReadsInsideRange == pc = "qid" => QidReadsTo(mem, end, Frame) < end

\* C20 as stated: the shift never wraps: under every indexing_mode every
\* resolved id is the raw id or the raw id minus 1 as a non-negative integer.
ShiftNeverWraps ==
  Completed =>
    /\ Len(out.index) = Len(raw)
    /\ \A i \in 1..Len(raw) : out.index[i] \in {raw[i], raw[i] - 1} /\ out.index[i] >= 0

\* C20, amended: the shift wraps only when 1-based indexing is forced.  With
\* indexing_mode <= 0 a pass that holds an id 0 is not shifted, so every
\* resolved id is the raw id or the raw id minus 1 and none is negative; with
\* indexing_mode > 0 every id is decremented in the arithmetic of IndexType,
\* and a raw id 0 becomes the largest value of IndexType.
ShiftWrapsOnlyWhenForced ==
  Completed =>
    /\ Len(out.index) = Len(raw)
    /\ \A i \in 1..Len(raw) :
         IF indexing_mode > 0
           THEN out.index[i] = (IF raw[i] = 0 THEN IndexTypeMax ELSE raw[i] - 1)
           ELSE /\ out.index[i] \in {raw[i], raw[i] - 1}
                /\ out.index[i] >= 0
                /\ (\E j \in 1..Len(raw) : raw[j] = 0) => out.index[i] = raw[i]

\* C20 witness: a completed pass with forced 1-based indexing over a range
\* that holds the id 0 next to another id
ShiftWrapsWitness ==
  /\ Completed
  /\ indexing_mode > 0
  /\ \E i, j \in 1..Len(raw) :
       /\ raw[i] = 0
       /\ out.index[i] = IndexTypeMax
       /\ raw[j] > 0
       /\ out.index[j] = raw[j] - 1

====
